---- MODULE Spec2Model ----
(***************************************************************************)
(* Model of the logging facade of src/log.go: construction with functional *)
(* options, the level gate (zap.AtomicLevel), the sink fan-out             *)
(* (zapcore.NewMultiWriteSyncer over syslog / caller writer / lumberjack   *)
(* file), contextual facades (With), and the runtime setters.              *)
(*                                                                         *)
(* A Go string is a sequence of pieces (each piece one TLA+ string), so    *)
(* that strings.ToLower, fmt.Sprintf and the JSON encoder are computed     *)
(* rather than assumed.  An encoded record is a sequence of such strings   *)
(* (tokens): "{" key value key value ... "}".                              *)
(***************************************************************************)
EXTENDS Integers, Sequences, FiniteSets, TLC

VARIABLES
    pc,        \* "new" | "ready" | "terminating" | "exited" | "failed"
    app,       \* NewLogger argument app
    version,   \* NewLogger argument version
    opts,      \* NewLogger argument opts (sequence of options)
    config,    \* *config shared by every facade
    targets,   \* []zapcore.WriteSyncer handed to NewMultiWriteSyncer
    rotator,   \* the lumberjack.Logger object created by getLogRotator
    gates,     \* heap of atomic level cells (zap.AtomicLevel points into it)
    facades,   \* every *logger value: the root and those returned by With
    offered,   \* per sink: the byte sequences handed to its Write (see below)
    stored,    \* per sink: the bytes the sink accepted (see below)
    writeErr,  \* errors aggregated by the last fan-out write (failed sinks)
    call,      \* the inputs of the most recent call on a facade
    should,    \* terminal behaviour pending after the write (CheckedEntry.should)
    effect,    \* how the last call ended: none | panic | exit | nilderef | ctorpanic
    ppc,       \* concurrent callers: position of each caller
    pbuf,      \* concurrent callers: encoded record being written
    pidx,      \* concurrent callers: index of the sink being written
    ppos,      \* concurrent callers: number of chunks already written to it
    pleft,     \* concurrent callers: log calls each caller still makes
    mu,        \* per sink: holder of the sink's own mutex (0 = free)
    inWrite    \* per sink: callers currently inside its Write

vars == <<pc, app, version, opts, config, targets, rotator, gates, facades,
          offered, stored, writeErr, call, should, effect,
          ppc, pbuf, pidx, ppos, pleft, mu, inWrite>>

seqVars == <<pc, app, version, opts, config, targets, rotator, gates, facades,
             offered, stored, writeErr, call, should, effect>>

concVars == <<ppc, pbuf, pidx, ppos, pleft, mu, inWrite>>

----------------------------------------------------------------------------
(* The sinks are write-only for the program, so they are observed over a   *)
(* window: offered and stored hold what the sinks were handed and accepted *)
(* since the window began.  A sequential log call or SetLogLevel call      *)
(* begins a new window, which makes any number of successive calls         *)
(* checkable; with concurrent callers the window begins at construction.   *)

(* Bounds *)

MaxOpts == 2
MaxFacades == 3
MaxProcs == 2
MaxProcCalls == 1

----------------------------------------------------------------------------
(* Strings *)

S(x) == <<x>>

NilStr == << >>

LowerCh(c) ==
    CASE c = "M" -> "m"
      [] c = "S" -> "s"
      [] c = "V" -> "v"
      [] OTHER -> c

ToLower(s) == [i \in DOMAIN s |-> LowerCh(s[i])]

RECURSIVE Sprintf(_, _)
Sprintf(format, args) ==
    IF format = << >> THEN << >>
    ELSE IF Head(format) = "%s" /\ args # << >>
         THEN Head(args) \o Sprintf(Tail(format), Tail(args))
         ELSE <<Head(format)>> \o Sprintf(Tail(format), args)

Range(s) == {s[i] : i \in DOMAIN s}

----------------------------------------------------------------------------
(* Constants of src/log.go *)

timeKey == S("time")
levelKey == S("level")
messageKey == S("msg")
defaultLevel == S("info")
defaultEncoding == S("json")
logFilePathFormat == <<"/logs/", "%s", ".log">>
maxsize == 20
maxcount == 3
defaultInstanceID == S("instance_1")

(* zapcore.Level *)
DebugLevel == -1
InfoLevel == 0
WarnLevel == 1
ErrorLevel == 2
DPanicLevel == 3
PanicLevel == 4
FatalLevel == 5

Sinks == {"syslog", "out", "file"}

NilWriter == "nil"

----------------------------------------------------------------------------
(* Functional options, src/log.go:48-106.  An option value is the closure  *)
(* returned by the With... constructor: its name and the captured          *)
(* arguments (s, s2 strings; n an int; w a writer).                        *)

Opt(name, s, s2, n, w) == [name |-> name, s |-> s, s2 |-> s2, n |-> n, w |-> w]

WithSyslog(conn, protocol) == Opt("WithSyslog", conn, protocol, 0, NilWriter)
WithOutput(w) == Opt("WithOutput", NilStr, NilStr, 0, w)
WithLogLevel(level) == Opt("WithLogLevel", level, NilStr, 0, NilWriter)
WithEncoding(ec) == Opt("WithEncoding", ec, NilStr, 0, NilWriter)
WithLogFile(filePath) == Opt("WithLogFile", filePath, NilStr, 0, NilWriter)
WithRotationSize(size) == Opt("WithRotationSize", NilStr, NilStr, size, NilWriter)
WithRotationCount(count) == Opt("WithRotationCount", NilStr, NilStr, count, NilWriter)
WithInstanceID(instanceID) == Opt("WithInstanceID", instanceID, NilStr, 0, NilWriter)

(* The body of each closure applied to the logger's config. *)
ApplyOption(o, c) ==
    CASE o.name = "WithSyslog" ->
             [c EXCEPT !.syslogConn = o.s, !.syslogProtocol = o.s2]
      [] o.name = "WithOutput" -> [c EXCEPT !.out = o.w]
      [] o.name = "WithLogLevel" -> [c EXCEPT !.logLevel = o.s]
      [] o.name = "WithEncoding" -> [c EXCEPT !.encoding = defaultEncoding]
      [] o.name = "WithLogFile" -> [c EXCEPT !.logPath = o.s]
      [] o.name = "WithRotationSize" -> [c EXCEPT !.rotationSize = o.n]
      [] o.name = "WithRotationCount" -> [c EXCEPT !.rotationCount = o.n]
      [] o.name = "WithInstanceID" -> [c EXCEPT !.instanceID = o.s]

RECURSIVE ApplyOptions(_, _)
ApplyOptions(os, c) ==
    IF os = << >> THEN c
    ELSE ApplyOptions(Tail(os), ApplyOption(Head(os), c))

DefaultConfigNoLower(a) ==
    [ encoding       |-> defaultEncoding,
      logLevel       |-> defaultLevel,
      logPath        |-> Sprintf(logFilePathFormat, <<a>>),
      rotationSize   |-> maxsize,
      rotationCount  |-> maxcount,
      syslogConn     |-> NilStr,
      syslogProtocol |-> NilStr,
      out            |-> NilWriter,
      instanceID     |-> defaultInstanceID ]

(* The config literal NewLogger starts from. *)
DefaultConfig(a) ==
    [ encoding       |-> defaultEncoding,
      logLevel       |-> defaultLevel,
      logPath        |-> Sprintf(logFilePathFormat, <<ToLower(a)>>),
      rotationSize   |-> maxsize,
      rotationCount  |-> maxcount,
      syslogConn     |-> NilStr,
      syslogProtocol |-> NilStr,
      out            |-> NilWriter,
      instanceID     |-> defaultInstanceID ]

(* getZapLogLevel: ok = FALSE is the panic of the default branch. *)
getZapLogLevel(level) ==
    CASE level = S("debug") -> [ok |-> TRUE, level |-> DebugLevel]
      [] level = S("info")  -> [ok |-> TRUE, level |-> InfoLevel]
      [] level = S("warn")  -> [ok |-> TRUE, level |-> WarnLevel]
      [] level = S("error") -> [ok |-> TRUE, level |-> ErrorLevel]
      [] level = S("panic") -> [ok |-> TRUE, level |-> PanicLevel]
      [] level = S("fatal") -> [ok |-> TRUE, level |-> FatalLevel]
      [] OTHER              -> [ok |-> FALSE, level |-> InfoLevel]

(* getLogRotator *)
getLogRotator(conf) ==
    [ Filename   |-> conf.logPath,
      MaxSize    |-> conf.rotationSize,
      MaxBackups |-> conf.rotationCount,
      LocalTime  |-> TRUE,
      Compress   |-> FALSE ]

NoRotator == [Filename |-> NilStr, MaxSize |-> 0, MaxBackups |-> 0,
              LocalTime |-> FALSE, Compress |-> FALSE]

(* The targets slice built by NewLogger, in append order. *)
BuildTargets(conf) ==
    (IF conf.syslogConn # NilStr THEN <<"syslog">> ELSE << >>)
    \o (IF conf.out # NilWriter THEN <<"out">> ELSE << >>)
    \o (IF conf.encoding = defaultEncoding THEN <<"file">> ELSE << >>)

----------------------------------------------------------------------------
(* Inputs *)

Apps == {<<"S", "v", "c">>, <<"s", "v", "c">>}
Versions == {S("1.0.0")}

AllOptions ==
    { WithSyslog(S("localhost:514"), S("udp")),
      WithOutput("buf"),
      WithLogLevel(S("debug")),
      WithLogLevel(S("fatal")),
      WithLogLevel(S("verbose")),
      WithEncoding(S("console")),
      WithEncoding(S("json")),
      WithLogFile(S("/tmp/app.log")),
      WithRotationSize(1),
      WithRotationCount(5),
      WithInstanceID(S("my_instance")) }

SinkApps == {<<"S", "v", "c">>}

SinkOptionLists ==
    { << >>,
      <<WithOutput("buf")>>,
      <<WithOutput("buf"), WithInstanceID(S("my_instance"))>>,
      <<WithSyslog(S("localhost:514"), S("udp"))>>,
      <<WithSyslog(S("localhost:514"), S("udp")), WithOutput("buf")>> }

RECURSIVE SeqsUpTo(_, _)
SeqsUpTo(set, n) ==
    IF n = 0 THEN {<< >>}
    ELSE LET shorter == SeqsUpTo(set, n - 1)
         IN shorter \cup {Append(q, x) : q \in shorter, x \in set}

EmptySinkLog == [s \in Sinks |-> << >>]

NoCall == [op |-> "none", facade |-> 0, method |-> "none", name |-> NilStr,
           size |-> 0, msg |-> NilStr, kvs |-> << >>, failing |-> {}]

Init ==
    /\ pc = "new"
    /\ app = NilStr
    /\ version = NilStr
    /\ opts = << >>
    /\ config = DefaultConfig(NilStr)
    /\ targets = << >>
    /\ rotator = NoRotator
    /\ gates = << >>
    /\ facades = << >>
    /\ offered = EmptySinkLog
    /\ stored = EmptySinkLog
    /\ writeErr = {}
    /\ call = NoCall
    /\ should = "none"
    /\ effect = "none"
    /\ ppc = [p \in 1..MaxProcs |-> "idle"]
    /\ pbuf = [p \in 1..MaxProcs |-> << >>]
    /\ pidx = [p \in 1..MaxProcs |-> 0]
    /\ ppos = [p \in 1..MaxProcs |-> 0]
    /\ pleft = [p \in 1..MaxProcs |-> MaxProcCalls]
    /\ mu = [s \in Sinks |-> 0]
    /\ inWrite = [s \in Sinks |-> {}]

ServiceFieldsDefaultID(a, v, conf) ==
    <<S("service"), a, S("version"), v, S("instance_id"), defaultInstanceID>>

(* The fields zap.Fields binds to the core at construction. *)
ServiceFields(a, v, conf) ==
    <<S("service"), a, S("version"), v, S("instance_id"), conf.instanceID>>

(* NewLogger(app, version, opts...).  dialOk is the outcome of syslog.Dial *)
(* inside GetSyslog.                                                       *)
NewLoggerFrom(apps, optlists) ==
    /\ pc = "new"
    /\ \E a \in apps, v \in Versions, os \in optlists,
          dialOk \in BOOLEAN :
         LET conf == ApplyOptions(os, DefaultConfig(a))
             zl == getZapLogLevel(conf.logLevel)
         IN /\ app' = a
            /\ version' = v
            /\ opts' = os
            /\ config' = conf
            /\ (conf.syslogConn = NilStr => dialOk)
            /\ IF ~zl.ok
               THEN /\ pc' = "failed"
                    /\ effect' = "ctorpanic"
                    /\ UNCHANGED <<targets, rotator, gates, facades>>
               ELSE IF ~dialOk
               THEN /\ pc' = "failed"
                    /\ effect' = "none"
                    /\ UNCHANGED <<targets, rotator, gates, facades>>
               ELSE /\ pc' = "ready"
                    /\ effect' = "none"
                    /\ targets' = BuildTargets(conf)
                    /\ rotator' = IF conf.encoding = defaultEncoding
                                  THEN getLogRotator(conf) ELSE NoRotator
                    /\ gates' = <<zl.level>>
                    /\ facades' = << [ fields    |-> ServiceFields(a, v, conf),
                                       coreLevel |-> 1,
                                       level     |-> 1,
                                       rotator   |-> IF conf.encoding = defaultEncoding
                                                     THEN "lr" ELSE "nil" ] >>
    /\ UNCHANGED <<offered, stored, writeErr, call, should>>
    /\ UNCHANGED concVars

(* Construction over every option of the package. *)
NewLogger == NewLoggerFrom(Apps, SeqsUpTo(AllOptions, MaxOpts))

(* Construction with each set of sinks: file alone, with the caller's      *)
(* writer, with syslog, with both.                                         *)
NewLoggerSinks == NewLoggerFrom(SinkApps, SinkOptionLists)

----------------------------------------------------------------------------
(* Record encoder (zapcore JSON encoder configured at src/log.go:146-155)  *)

(* zapcore.CapitalLevelEncoder *)
CapitalLevel(lvl) ==
    CASE lvl = DebugLevel  -> S("DEBUG")
      [] lvl = InfoLevel   -> S("INFO")
      [] lvl = WarnLevel   -> S("WARN")
      [] lvl = ErrorLevel  -> S("ERROR")
      [] lvl = DPanicLevel -> S("DPANIC")
      [] lvl = PanicLevel  -> S("PANIC")
      [] lvl = FatalLevel  -> S("FATAL")

(* One JSON object: level, time, msg, the fields bound to the core, the    *)
(* fields of the call, and the stack trace the production config adds from *)
(* Error upwards.  The timestamp is the abstract value "T".                *)
EncodeEntry(fields, lvl, msg, kvs) ==
    <<S("{"), levelKey, CapitalLevel(lvl), timeKey, S("T"), messageKey, msg>>
    \o fields \o kvs
    \o (IF lvl >= ErrorLevel THEN <<S("stacktrace"), S("stack")>> ELSE << >>)
    \o <<S("}")>>

----------------------------------------------------------------------------
(* Level gate *)

(* zap.AtomicLevel.Enabled as consulted by the core of facade f. *)
Threshold(f) == gates[facades[f].coreLevel]

EnabledAbove(f, lvl) == lvl > Threshold(f)

Enabled(f, lvl) == lvl >= Threshold(f)

----------------------------------------------------------------------------
(* Sink fan-out: zapcore.NewMultiWriteSyncer(targets...).Write             *)

RECURSIVE MultiWriteTargetsStopOnError(_, _)
MultiWriteTargetsStopOnError(ts, failing) ==
    IF ts = << >> THEN {}
    ELSE IF Head(ts) \in failing THEN {Head(ts)}
    ELSE {Head(ts)} \cup MultiWriteTargetsStopOnError(Tail(ts), failing)

(* The sinks whose Write the fan-out invokes: the loop over the targets    *)
(* has no early exit.                                                      *)
MultiWriteTargets(ts, failing) == Range(ts)

(* The aggregated error: the failed sinks among those written. *)
MultiWriteErr(ts, failing) == MultiWriteTargets(ts, failing) \cap failing

SinkWrite(p, failing) ==
    LET written == MultiWriteTargets(targets, failing)
    IN /\ writeErr' = MultiWriteErr(targets, failing)
       /\ offered' = [s \in Sinks |-> IF s \in written THEN <<p>> ELSE << >>]
       /\ stored' = [s \in Sinks |-> IF s \in written \ failing THEN p ELSE << >>]

(* Terminal behaviour zap attaches to an entry of the level, whether or    *)
(* not a core accepted it.                                                 *)
ShouldOf(lvl) ==
    CASE lvl = PanicLevel -> "panic"
      [] lvl = FatalLevel -> "exit"
      [] OTHER -> "none"

(* One log call of level lvl on facade f: gate check, encode, fan-out write. *)
Emit(f, lvl, msg, kvs, failing) ==
    IF lvl < DPanicLevel /\ ~Enabled(f, lvl)
    THEN /\ should' = "none"
         /\ writeErr' = {}
         /\ offered' = EmptySinkLog
         /\ stored' = EmptySinkLog
    ELSE /\ should' = ShouldOf(lvl)
         /\ IF Enabled(f, lvl)
            THEN SinkWrite(EncodeEntry(facades[f].fields, lvl, msg, kvs), failing)
            ELSE /\ writeErr' = {}
                 /\ offered' = EmptySinkLog
                 /\ stored' = EmptySinkLog

----------------------------------------------------------------------------
(* Facade methods *)

Methods == {"Debug", "Info", "Warn", "Error", "Panic", "Fatal", "Debugf", "Printf"}

MethodLevelPanicAsError(m) ==
    CASE m = "Debug"  -> DebugLevel
      [] m = "Debugf" -> DebugLevel
      [] m = "Info"   -> InfoLevel
      [] m = "Printf" -> InfoLevel
      [] m = "Warn"   -> WarnLevel
      [] m = "Error"  -> ErrorLevel
      [] m = "Panic"  -> ErrorLevel
      [] m = "Fatal"  -> FatalLevel

(* The zap level each method logs at. *)
MethodLevel(m) ==
    CASE m = "Debug"  -> DebugLevel
      [] m = "Debugf" -> DebugLevel
      [] m = "Info"   -> InfoLevel
      [] m = "Printf" -> InfoLevel
      [] m = "Warn"   -> WarnLevel
      [] m = "Error"  -> ErrorLevel
      [] m = "Panic"  -> PanicLevel
      [] m = "Fatal"  -> FatalLevel

Formatted(m) == m \in {"Debugf", "Printf"}

Msgs == {<<"this is a test message">>}
Formats == {<<"hello ", "%s">>}
FormatArgs == {<<S("world")>>}
KeyVals == {<<S("field"), S("value")>>}
WithKeyVals == {<<S("k"), S("v")>>}
LevelNames == {S("debug"), S("info"), S("warn"), S("error"), S("panic"),
               S("fatal"), S("verbose")}
Sizes == {5}

UnsupportedMsg ==
    <<"can't change to a unsupported log level. Only debug, info, warn, error, panic and fatal levels are supported.">>

(* The sink failures a call can meet: the sinks are only written when the  *)
(* gate admits the record.                                                 *)
FailuresFor(f, lvl) == IF Enabled(f, lvl) THEN SUBSET Range(targets) ELSE {{}}

(* The message a method logs: the f-variants format it with Sprintf. *)
MsgsOf(m) ==
    IF Formatted(m)
    THEN {Sprintf(fm, a) : fm \in Formats, a \in FormatArgs}
    ELSE Msgs

KeyValsOf(m) == IF Formatted(m) THEN {<< >>} ELSE KeyVals

(* Debug, Info, Warn, Error, Panic, Fatal, Debugf, Printf on facade f.     *)
(* failing: the sinks whose Write returns an error during this call.       *)
LogCallStep(f, m, msg, kvs, failing) ==
    /\ pc = "ready"
    /\ UNCHANGED <<gates, facades, app, version, opts, config, targets, rotator>>
    /\ effect' = "none"
    /\ call' = [op |-> "log", facade |-> f, method |-> m, name |-> NilStr,
                size |-> 0, msg |-> msg, kvs |-> kvs, failing |-> failing]
    /\ Emit(f, MethodLevel(m), msg, kvs, failing)
    /\ pc' = IF should' # "none" THEN "terminating" ELSE "ready"
    /\ UNCHANGED concVars

LogCall ==
    \E f \in DOMAIN facades, m \in Methods :
      \E msg \in MsgsOf(m), kvs \in KeyValsOf(m),
         failing \in FailuresFor(f, MethodLevel(m)) :
        LogCallStep(f, m, msg, kvs, failing)

(* The panic / os.Exit zap performs after CheckedEntry.Write has written. *)
Terminate ==
    /\ pc = "terminating"
    /\ effect' = should
    /\ should' = "none"
    /\ pc' = IF should = "exit" THEN "exited" ELSE "ready"
    /\ UNCHANGED <<app, version, opts, config, targets, rotator, gates, facades,
                   offered, stored, writeErr, call>>
    /\ UNCHANGED concVars

(* The facade With returns: the sugared logger with the fields added, a    *)
(* nil rotator, and the parent's level and config.                         *)
Derived(parent, kv) ==
    [ fields    |-> parent.fields \o kv,
      coreLevel |-> parent.coreLevel,
      level     |-> parent.level,
      rotator   |-> "nil" ]

WithStepCopiesGate(f, kv) ==
    /\ pc = "ready"
    /\ Len(facades) < MaxFacades
    /\ gates' = Append(gates, gates[facades[f].level])
    /\ facades' = Append(facades,
                         [Derived(facades[f], kv) EXCEPT !.level = Len(gates) + 1])
    /\ UNCHANGED <<pc, app, version, opts, config, targets, rotator,
                   offered, stored, writeErr, call, should, effect>>
    /\ UNCHANGED concVars

(* With(keyvals...) on facade f.  Facades are immutable values, so one     *)
(* equal to a facade already held is not held twice.                       *)
WithStep(f, kv) ==
    /\ pc = "ready"
    /\ Len(facades) < MaxFacades
    /\ Derived(facades[f], kv) \notin Range(facades)
    /\ facades' = Append(facades, Derived(facades[f], kv))
    /\ UNCHANGED <<pc, app, version, opts, config, targets, rotator, gates,
                   offered, stored, writeErr, call, should, effect>>
    /\ UNCHANGED concVars

With == \E f \in DOMAIN facades, kv \in WithKeyVals : WithStep(f, kv)

SetLogLevelCaseDefaultInfo(level) ==
    CASE level = S("debug") -> [ok |-> TRUE, level |-> DebugLevel]
      [] level = S("info")  -> [ok |-> TRUE, level |-> InfoLevel]
      [] level = S("warn")  -> [ok |-> TRUE, level |-> WarnLevel]
      [] level = S("error") -> [ok |-> TRUE, level |-> ErrorLevel]
      [] level = S("panic") -> [ok |-> TRUE, level |-> PanicLevel]
      [] level = S("fatal") -> [ok |-> TRUE, level |-> FatalLevel]
      [] OTHER              -> [ok |-> TRUE, level |-> InfoLevel]

(* The switch of SetLogLevel: ok = FALSE is its default branch. *)
SetLogLevelCase(level) ==
    CASE level = S("debug") -> [ok |-> TRUE, level |-> DebugLevel]
      [] level = S("info")  -> [ok |-> TRUE, level |-> InfoLevel]
      [] level = S("warn")  -> [ok |-> TRUE, level |-> WarnLevel]
      [] level = S("error") -> [ok |-> TRUE, level |-> ErrorLevel]
      [] level = S("panic") -> [ok |-> TRUE, level |-> PanicLevel]
      [] level = S("fatal") -> [ok |-> TRUE, level |-> FatalLevel]
      [] OTHER              -> [ok |-> FALSE, level |-> InfoLevel]

(* SetLogLevel(name) on facade f *)
SetLogLevelStep(f, name, failing) ==
    /\ pc = "ready"
    /\ UNCHANGED <<facades, app, version, opts, config, targets, rotator>>
    /\ pc' = "ready"
    /\ effect' = "none"
    /\ call' = [op |-> "SetLogLevel", facade |-> f, method |-> "none", name |-> name,
                size |-> 0, msg |-> NilStr, kvs |-> << >>, failing |-> failing]
    /\ LET zl == SetLogLevelCase(name)
       IN IF zl.ok
          THEN /\ gates' = [gates EXCEPT ![facades[f].level] = zl.level]
               /\ failing = {}
               /\ writeErr' = {}
               /\ should' = "none"
               /\ offered' = EmptySinkLog
               /\ stored' = EmptySinkLog
          ELSE /\ Emit(f, WarnLevel, UnsupportedMsg, << >>, failing)
               /\ UNCHANGED gates
    /\ UNCHANGED concVars

SetLogLevel ==
    \E f \in DOMAIN facades, name \in LevelNames :
      \E failing \in (IF SetLogLevelCase(name).ok THEN {{}}
                       ELSE FailuresFor(f, WarnLevel)) :
        SetLogLevelStep(f, name, failing)

(* SetLogRotationSize(n) on facade f: a store through l.rotator, a nil     *)
(* pointer dereference when the facade's rotator is nil.                   *)
SetLogRotationSizeStep(f, n) ==
    /\ pc = "ready"
    /\ IF facades[f].rotator = "nil"
       THEN /\ effect' = "nilderef"
            /\ UNCHANGED rotator
       ELSE /\ effect' = "none"
            /\ rotator' = [rotator EXCEPT !.MaxSize = n]
    /\ call' = [op |-> "SetLogRotationSize", facade |-> f, method |-> "none", name |-> NilStr,
                size |-> n, msg |-> NilStr, kvs |-> << >>, failing |-> {}]
    /\ UNCHANGED <<pc, app, version, opts, config, targets, gates, facades,
                   offered, stored, writeErr, should>>
    /\ UNCHANGED concVars

SetLogRotationSize ==
    \E f \in DOMAIN facades, n \in Sizes : SetLogRotationSizeStep(f, n)

(* SetLogRotationCount(n) on facade f *)
SetLogRotationCountStep(f, n) ==
    /\ pc = "ready"
    /\ IF facades[f].rotator = "nil"
       THEN /\ effect' = "nilderef"
            /\ UNCHANGED rotator
       ELSE /\ effect' = "none"
            /\ rotator' = [rotator EXCEPT !.MaxBackups = n]
    /\ call' = [op |-> "SetLogRotationCount", facade |-> f, method |-> "none", name |-> NilStr,
                size |-> n, msg |-> NilStr, kvs |-> << >>, failing |-> {}]
    /\ UNCHANGED <<pc, app, version, opts, config, targets, gates, facades,
                   offered, stored, writeErr, should>>
    /\ UNCHANGED concVars

SetLogRotationCount ==
    \E f \in DOMAIN facades, n \in Sizes : SetLogRotationCountStep(f, n)

(* Logging: gate, encoder, fan-out and contextual facades. *)
Next ==
    \/ NewLoggerSinks
    \/ LogCall
    \/ Terminate
    \/ With
    \/ SetLogLevel

Spec == Init /\ [][Next]_vars

(* Logging with the scheduling of a synchronous call: once the record is  *)
(* written, the pending panic or exit is carried out.                      *)
FairSpec == Init /\ [][Next]_vars /\ WF_vars(Terminate)

(* Configuration: construction over all options and the rotation setters. *)
CfgNext ==
    \/ NewLogger
    \/ With
    \/ SetLogRotationSize
    \/ SetLogRotationCount

CfgSpec == Init /\ [][CfgNext]_vars

----------------------------------------------------------------------------
(* Concurrent callers.  A log call runs on the caller's goroutine: gate    *)
(* check and encoding, then the fan-out's loop over the targets, calling   *)
(* each sink's Write in turn.  zapcore.AddSync adds no lock and the        *)
(* fan-out holds none; the lumberjack file and the syslog writer take      *)
(* their own mutex inside Write, the caller-supplied writer is written as  *)
(* it is.  A Write copies the record into the sink in two parts.           *)

Procs == 1..MaxProcs

ConcMethods == {"Info", "Error"}

HasMutex(s) == s \in {"file", "syslog"}

Part(p, i) ==
    LET h == Len(p) \div 2
    IN IF i = 1 THEN SubSeq(p, 1, h) ELSE SubSeq(p, h + 1, Len(p))

(* Caller c starts a log call: gate check and encoding. *)
PBegin(c) ==
    /\ pc = "ready"
    /\ ppc[c] = "idle"
    /\ pleft[c] > 0
    /\ \E f \in DOMAIN facades, m \in ConcMethods, msg \in Msgs, kvs \in KeyVals :
         IF Enabled(f, MethodLevel(m)) /\ targets # << >>
         THEN /\ pbuf' = [pbuf EXCEPT ![c] =
                            EncodeEntry(facades[f].fields, MethodLevel(m), msg, kvs)]
              /\ pidx' = [pidx EXCEPT ![c] = 1]
              /\ ppc' = [ppc EXCEPT ![c] = "call"]
              /\ UNCHANGED pleft
         ELSE /\ pleft' = [pleft EXCEPT ![c] = @ - 1]
              /\ UNCHANGED <<pbuf, pidx, ppc>>
    /\ UNCHANGED <<ppos, mu, inWrite>>
    /\ UNCHANGED seqVars

(* Caller c enters the Write of its current sink. *)
PEnter(c) ==
    /\ ppc[c] = "call"
    /\ LET s == targets[pidx[c]]
       IN /\ IF HasMutex(s)
             THEN /\ mu[s] = 0
                  /\ mu' = [mu EXCEPT ![s] = c]
             ELSE UNCHANGED mu
          /\ inWrite' = [inWrite EXCEPT ![s] = @ \cup {c}]
          /\ offered' = [offered EXCEPT ![s] = Append(@, pbuf[c])]
    /\ ppc' = [ppc EXCEPT ![c] = "write"]
    /\ ppos' = [ppos EXCEPT ![c] = 0]
    /\ UNCHANGED <<pbuf, pidx, pleft>>
    /\ UNCHANGED <<pc, app, version, opts, config, targets, rotator, gates, facades,
                   stored, writeErr, call, should, effect>>

(* Caller c copies the next part of its record into the sink. *)
PCopy(c) ==
    /\ ppc[c] = "write"
    /\ ppos[c] < 2
    /\ LET s == targets[pidx[c]]
       IN stored' = [stored EXCEPT ![s] = @ \o Part(pbuf[c], ppos[c] + 1)]
    /\ ppos' = [ppos EXCEPT ![c] = @ + 1]
    /\ UNCHANGED <<ppc, pbuf, pidx, pleft, mu, inWrite>>
    /\ UNCHANGED <<pc, app, version, opts, config, targets, rotator, gates, facades,
                   offered, writeErr, call, should, effect>>

(* Caller c returns from the sink's Write and moves to the next target. *)
PLeave(c) ==
    /\ ppc[c] = "write"
    /\ ppos[c] = 2
    /\ LET s == targets[pidx[c]]
       IN /\ mu' = IF HasMutex(s) THEN [mu EXCEPT ![s] = 0] ELSE mu
          /\ inWrite' = [inWrite EXCEPT ![s] = @ \ {c}]
    /\ IF pidx[c] < Len(targets)
       THEN /\ pidx' = [pidx EXCEPT ![c] = @ + 1]
            /\ ppc' = [ppc EXCEPT ![c] = "call"]
            /\ UNCHANGED pleft
       ELSE /\ pidx' = [pidx EXCEPT ![c] = 0]
            /\ ppc' = [ppc EXCEPT ![c] = "idle"]
            /\ pleft' = [pleft EXCEPT ![c] = @ - 1]
    /\ UNCHANGED <<pbuf, ppos>>
    /\ UNCHANGED seqVars

Begin == \E c \in Procs : PBegin(c)
Enter == \E c \in Procs : PEnter(c)
Copy == \E c \in Procs : PCopy(c)
Leave == \E c \in Procs : PLeave(c)

ConcNext ==
    \/ NewLoggerSinks
    \/ With
    \/ Begin
    \/ Enter
    \/ Copy
    \/ Leave

ConcSpec == Init /\ [][ConcNext]_vars

----------------------------------------------------------------------------
(* Vocabulary of the properties *)

(* The severity order Debug < Info < Warn < Error < Panic < Fatal. *)
SeverityOrder == <<"debug", "info", "warn", "error", "panic", "fatal">>

RankOfName(name) ==
    IF \E i \in DOMAIN SeverityOrder : name = S(SeverityOrder[i])
    THEN CHOOSE i \in DOMAIN SeverityOrder : name = S(SeverityOrder[i])
    ELSE 0

(* Severity of a method: Debugf counts as Debug, Printf as Info. *)
RankOfMethod(m) ==
    CASE m \in {"Debug", "Debugf"} -> 1
      [] m \in {"Info", "Printf"}  -> 2
      [] m = "Warn"                -> 3
      [] m = "Error"               -> 4
      [] m = "Panic"               -> 5
      [] m = "Fatal"               -> 6

RankOfLevel(l) ==
    CASE l = DebugLevel -> 1
      [] l = InfoLevel  -> 2
      [] l = WarnLevel  -> 3
      [] l = ErrorLevel -> 4
      [] l = PanicLevel -> 5
      [] l = FatalLevel -> 6
      [] OTHER          -> 0

CapitalName(m) ==
    CASE m \in {"Debug", "Debugf"} -> S("DEBUG")
      [] m \in {"Info", "Printf"}  -> S("INFO")
      [] m = "Warn"                -> S("WARN")
      [] m = "Error"               -> S("ERROR")
      [] m = "Panic"               -> S("PANIC")
      [] m = "Fatal"               -> S("FATAL")

(* The threshold as the setter of the root logger last left it. *)
RootThresholdRank == RankOfLevel(gates[facades[1].level])

(* Value of a key in one encoded JSON object (the last occurrence wins). *)
RECURSIVE JSONGetFrom(_, _, _)
JSONGetFrom(rec, key, i) ==
    IF i + 1 > Len(rec) THEN NilStr
    ELSE LET rest == JSONGetFrom(rec, key, i + 2)
         IN IF rec[i] = key /\ rest = NilStr THEN rec[i + 1] ELSE rest

JSONGet(rec, key) == JSONGetFrom(rec, key, 2)

CountObjects(stream) == Cardinality({i \in DOMAIN stream : stream[i] = S("{")})

(* A byte stream that is a sequence of whole records: no record starts    *)
(* inside another one.                                                    *)
RECURSIVE Depth(_, _)
Depth(stream, n) ==
    IF n = 0 THEN 0
    ELSE Depth(stream, n - 1)
         + (IF stream[n] = S("{") THEN 1 ELSE IF stream[n] = S("}") THEN -1 ELSE 0)

Contiguous(stream) == \A n \in DOMAIN stream : Depth(stream, n) \in {0, 1}

(* The last option of the given name among the options of NewLogger. *)
HasOption(name) == \E i \in DOMAIN opts : opts[i].name = name

LastOption(name) ==
    opts[CHOOSE i \in DOMAIN opts :
           /\ opts[i].name = name
           /\ \A j \in DOMAIN opts : opts[j].name = name => j <= i]

----------------------------------------------------------------------------
(* The step just taken is the log call recorded in call'. *)
IsLogCall ==
    /\ call'.op = "log"
    /\ LogCallStep(call'.facade, call'.method, call'.msg, call'.kvs, call'.failing)

(* The step just taken is the SetLogLevel call recorded in call'. *)
IsSetLogLevel ==
    /\ call'.op = "SetLogLevel"
    /\ SetLogLevelStep(call'.facade, call'.name, call'.failing)

(* C1: a log call of severity S hands its record to every active sink if   *)
(* and only if S is at or above the threshold current at the call; below   *)
(* the threshold no sink receives or stores anything.                      *)
C1_Admission ==
    [][IsLogCall =>
         IF RankOfMethod(call'.method) >= RootThresholdRank
         THEN \A s \in Range(targets) :
                /\ Len(offered'[s]) = 1
                /\ JSONGet(offered'[s][1], levelKey) = CapitalName(call'.method)
                /\ JSONGet(offered'[s][1], messageKey) = call'.msg
         ELSE \A s \in Sinks : offered'[s] = << >> /\ stored'[s] = << >>]_vars

C1_Witness ==
    /\ pc = "ready"
    /\ call.op = "log"
    /\ call.method = "Warn"
    /\ Len(targets) = 3
    /\ gates[facades[1].level] = WarnLevel
    /\ \A s \in Range(targets) :
         /\ Len(offered[s]) = 1
         /\ JSONGet(offered[s][1], levelKey) = S("WARN")

(* C2: SetLogLevel with one of the six names makes admission follow that   *)
(* severity on every facade; with any other name it leaves the threshold   *)
(* as it was and returns normally.                                         *)
C2_SetLogLevel ==
    [][IsSetLogLevel =>
         IF RankOfName(call'.name) > 0
         THEN \A g \in DOMAIN facades, m \in Methods :
                Enabled(g, MethodLevel(m))' <=> RankOfMethod(m) >= RankOfName(call'.name)
         ELSE /\ gates' = gates
              /\ effect' = "none"
              /\ pc' = "ready"]_vars

C2_Witness ==
    /\ pc = "ready"
    /\ effect = "none"
    /\ call.op = "SetLogLevel"
    /\ call.name = S("verbose")
    /\ gates[facades[1].level] = DebugLevel
    /\ \E s \in Range(targets) :
         /\ Len(offered[s]) = 1
         /\ JSONGet(offered[s][1], messageKey) = UnsupportedMsg

(* C3: every facade, at any depth of With, reads and writes the level gate *)
(* of the logger it was derived from: With adds no gate, and after         *)
(* SetLogLevel on any facade every facade observes the new threshold.      *)
C3_SharedGate ==
    [][/\ \A f \in DOMAIN facades, kv \in WithKeyVals :
            WithStep(f, kv) =>
              /\ gates' = gates
              /\ facades'[Len(facades')].level = facades[f].level
              /\ facades'[Len(facades')].coreLevel = facades[f].coreLevel
       /\ (IsSetLogLevel /\ RankOfName(call'.name) > 0) =>
            \A g \in DOMAIN facades' :
              /\ RankOfLevel(Threshold(g)') = RankOfName(call'.name)
              /\ RankOfLevel(gates'[facades'[g].level]) = RankOfName(call'.name)]_vars

C3_Witness ==
    /\ pc = "ready"
    /\ Len(facades) = 3
    /\ Len(facades[3].fields) = Len(facades[1].fields) + 4
    /\ call.op = "SetLogLevel"
    /\ call.facade = 3
    /\ call.name = S("error")
    /\ \A g \in DOMAIN facades : Threshold(g) = ErrorLevel

(* C4: one fan-out write offers the same bytes to each of the N sinks,     *)
(* goes on past a failing sink, and returns an error if and only if at     *)
(* least one sink failed.                                                  *)
C4_FanOut ==
    [][(IsLogCall /\ RankOfMethod(call'.method) >= RootThresholdRank) =>
         /\ Len(offered'[targets[1]]) = 1
         /\ \A s \in Range(targets) :
              /\ offered'[s] = offered'[targets[1]]
              /\ stored'[s] = (IF s \in call'.failing THEN << >> ELSE offered'[s][1])
         /\ (writeErr' # {}) <=> (call'.failing # {})]_vars

C4_Witness ==
    /\ targets = <<"syslog", "out", "file">>
    /\ call.op = "log"
    /\ call.failing = {"out"}
    /\ writeErr = {"out"}
    /\ Len(offered["out"]) = 1
    /\ stored["out"] = << >>
    /\ stored["file"] = offered["file"][1]
    /\ stored["syslog"] = offered["out"][1]

(* C5: under concurrent callers no sink is written by two callers at once  *)
(* and every sink's byte stream is a sequence of whole records.            *)
C5_NoInterleaving ==
    \A s \in Sinks :
      /\ Cardinality(inWrite[s]) <= 1
      /\ Contiguous(stored[s])

(* C6 as stated: whenever the terminating effect of a Panic or Fatal call   *)
(* occurs, the record of that call has been handed to the sink fan-out.    *)
C6_HandedBeforeTerminating ==
    [][Terminate =>
         \A s \in Range(targets) :
           /\ offered[s] # << >>
           /\ JSONGet(offered[s][1], levelKey) =
                (IF should = "panic" THEN S("PANIC") ELSE S("FATAL"))]_vars

(* C6 amended: a Panic or Fatal call at or above the threshold hands its   *)
(* record to every sink before the terminating effect; the terminating     *)
(* effect comes only after the call's write step and always comes, whether *)
(* the sinks accepted or failed and also when the record was not admitted. *)
C6_TerminatesAfterWrite ==
    /\ [][(IsLogCall /\ call'.method \in {"Panic", "Fatal"}) =>
            /\ effect' = "none"
            /\ pc' = "terminating"
            /\ should' = (IF call'.method = "Panic" THEN "panic" ELSE "exit")
            /\ RankOfMethod(call'.method) >= RootThresholdRank =>
                 \A s \in Range(targets) :
                   /\ Len(offered'[s]) = 1
                   /\ JSONGet(offered'[s][1], levelKey) = CapitalName(call'.method)]_vars
    /\ [][(effect' \in {"panic", "exit"} /\ effect' # effect) =>
            /\ pc = "terminating"
            /\ call.method \in {"Panic", "Fatal"}
            /\ effect' = should
            /\ offered' = offered]_vars
    /\ (pc = "terminating") ~> (effect \in {"panic", "exit"})

C6_Witness ==
    /\ effect = "panic"
    /\ call.method = "Panic"
    /\ Len(targets) = 3
    /\ call.failing = Range(targets)
    /\ writeErr = Range(targets)
    /\ \A s \in Range(targets) :
         /\ Len(offered[s]) = 1
         /\ JSONGet(offered[s][1], levelKey) = S("PANIC")

(* C7: a constructed logger has level info, rotation size 20, rotation     *)
(* count 3, encoding json and path /logs/<lower-cased service>.log, each   *)
(* unless an option for that very field was given.                         *)
C7_Defaults ==
    pc = "ready" =>
      /\ ~HasOption("WithLogLevel") => config.logLevel = S("info")
      /\ ~HasOption("WithRotationSize") => config.rotationSize = 20
      /\ ~HasOption("WithRotationCount") => config.rotationCount = 3
      /\ ~HasOption("WithEncoding") => config.encoding = S("json")
      /\ ~HasOption("WithLogFile") => config.logPath = <<"/logs/", "s", "v", "c", ".log">>

C7_Witness ==
    /\ pc = "ready"
    /\ app = <<"S", "v", "c">>
    /\ opts = <<WithOutput("buf")>>
    /\ config.out = "buf"

(* C8: every record a sink stores for an admitted call carries the         *)
(* capitalized severity, the message, the service and version given to     *)
(* NewLogger and the instance ID (given or default), and is one object.    *)
C8_RecordFields ==
    [][(IsLogCall /\ RankOfMethod(call'.method) >= RootThresholdRank) =>
         \A s \in Range(targets) \ call'.failing :
           LET rec == stored'[s]
           IN /\ Len(rec) > 1
              /\ Head(rec) = S("{")
              /\ rec[Len(rec)] = S("}")
              /\ CountObjects(rec) = 1
              /\ JSONGet(rec, S("level")) = CapitalName(call'.method)
              /\ JSONGet(rec, S("msg")) = call'.msg
              /\ JSONGet(rec, S("service")) = app
              /\ JSONGet(rec, S("version")) = version
              /\ JSONGet(rec, S("instance_id")) =
                   (IF HasOption("WithInstanceID")
                    THEN LastOption("WithInstanceID").s
                    ELSE S("instance_1"))]_vars

C8_Witness ==
    /\ pc = "ready"
    /\ call.op = "log"
    /\ call.method = "Info"
    /\ CountObjects(stored["out"]) = 1
    /\ JSONGet(stored["out"], S("level")) = S("INFO")
    /\ JSONGet(stored["out"], S("msg")) = S("this is a test message")
    /\ JSONGet(stored["out"], S("service")) = <<"S", "v", "c">>
    /\ JSONGet(stored["out"], S("instance_id")) = S("my_instance")

(* C9: after construction every option's config field holds the value the  *)
(* caller supplied (the last one, when an option is repeated).             *)
C9_OptionsApplied ==
    pc = "ready" =>
      /\ HasOption("WithLogLevel") => config.logLevel = LastOption("WithLogLevel").s
      /\ HasOption("WithEncoding") => config.encoding = LastOption("WithEncoding").s
      /\ HasOption("WithLogFile") => config.logPath = LastOption("WithLogFile").s
      /\ HasOption("WithRotationSize") => config.rotationSize = LastOption("WithRotationSize").n
      /\ HasOption("WithRotationCount") => config.rotationCount = LastOption("WithRotationCount").n
      /\ HasOption("WithInstanceID") => config.instanceID = LastOption("WithInstanceID").s
      /\ HasOption("WithSyslog") =>
           /\ config.syslogConn = LastOption("WithSyslog").s
           /\ config.syslogProtocol = LastOption("WithSyslog").s2
      /\ HasOption("WithOutput") => config.out = LastOption("WithOutput").w

(* C10: on every facade, the root and those returned by With, the rotation *)
(* setters return normally, set the shared policy's limit to n and rotate  *)
(* nothing.                                                                *)
C10_RotationSetters ==
    [][/\ (call'.op = "SetLogRotationSize"
           /\ SetLogRotationSizeStep(call'.facade, call'.size)) =>
            (effect' = "none" /\ rotator'.MaxSize = call'.size /\ stored' = stored)
       /\ (call'.op = "SetLogRotationCount"
           /\ SetLogRotationCountStep(call'.facade, call'.size)) =>
            (effect' = "none" /\ rotator'.MaxBackups = call'.size /\ stored' = stored)]_vars

====
